---- MODULE Spec2Model ----
(***************************************************************************)
(* A model of the call-auction engine of dtt-auction:                      *)
(*   - orders.rs            the registered-order store (RegisteredOrders)  *)
(*   - sorted_vec_orders.rs the sorted side books (SortedOrders)           *)
(*   - market.rs            the equilibrium matcher (market_match)         *)
(*   - main.rs              the driver loop (requests, flushes, epochs)    *)
(*                                                                         *)
(* Six specifications share the variables:                                 *)
(*   Spec          market_match applied to arbitrary sorted books          *)
(*   BookSpec      the mutating operations of one SortedOrders             *)
(*   ScenarioSpec  the unit tests' test_data followed by market_match      *)
(*   RegistrySpec  the operations of one RegisteredOrders                  *)
(*   SamplesSpec   the test sorted_orders: registry, buffer and book       *)
(*   DriverSpec    the loop of main                                        *)
(*                                                                         *)
(* Encoding of machine integers.  usize values are kept modulo 2^64 with   *)
(* the representative -1 standing for usize::MAX (the value 0 - 1 wraps    *)
(* to when overflow checks are off).  i32 values are kept exactly; the     *)
(* wrapped sum of two i32 is computed without leaving the 32-bit range.    *)
(***************************************************************************)
EXTENDS Integers, Sequences, FiniteSets, TLC

VARIABLES
    pc,          \* position of the harness: which step comes next
    bids,        \* SortedOrders of type Buy  : [order_type, orders]
    asks,        \* SortedOrders of type Sell : [order_type, orders]
    result,      \* outcome of the last market_match call, or NoResult
    registered,  \* RegisteredOrders: the slot map of live orders
    buy_batch,   \* buffer of new Buy orders (buy_samples in the tests)
    sell_batch,  \* buffer of new Sell orders (sell_samples in the tests)
    test,        \* parameters of the unit test being run
    cancel_ids,  \* ids removed from the registry, to be filtered from the books
    cancel_is_bid, \* the driver's toggle: the next cancel pops the buy book
    driver_epoch, \* the driver's epoch counter (epoch in main)
    input,       \* number of input orders the driver has consumed
    tasks,       \* positions of the two closures of a running rayon::join
    fork,        \* books and buffers as they were when rayon::join was entered
    filled       \* history: per traded order id, its quantity and the sum of its trades

\* The variables of the driver (main.rs), idle in the other specifications.
driverVars ==
    <<cancel_ids, cancel_is_bid, driver_epoch, input, tasks, fork, filled>>

vars == <<pc, bids, asks, result, registered, buy_batch, sell_batch, test,
          driverVars>>

----------------------------------------------------------------------------
(* Bounds of the model *)

MaxLen == 3

\* The number of input orders the driver consumes (ORDERS, scaled down).
MaxOrders == 4

\* BATCH_SIZE and CIRCULATION of the driver, scaled down with ORDERS.
BatchSize == 2

Circulation == 1

Quantities == {1, 2}

SmallRates == {1, 2, 3}

\* Where the rates of one pair of books lie: around zero (-1, 0, 1), and
\* just below Price::MAX, where the sum of two rates leaves the i32 range.
RateBases == {0 - 2, 2147483647 - 3}

----------------------------------------------------------------------------
(* orders.rs *)

I32_MAX == 2147483647

I32_MIN == (0 - 2147483647) - 1

RatesAt(base) == {base + r : r \in SmallRates}

OrderId(idx, version) == [idx |-> idx, version |-> version]

Order(order_type, rate, quantity) ==
    [order_type |-> order_type, rate |-> rate, quantity |-> quantity]

RegisteredOrder(id, epoch, order_type, rate, quantity) ==
    [id |-> id, epoch |-> epoch, order_type |-> order_type,
     rate |-> rate, quantity |-> quantity]

init_from_order(id, epoch, order) ==
    RegisteredOrder(id, epoch, order.order_type, order.rate, order.quantity)

\* RegisteredOrders is a slot map: a sequence of slots [version, value].  A
\* slot with an odd version holds an order, one with an even version is
\* vacant; a key (idx, version) is live while the slot's version equals it.
\* The version is a u32, kept by its 32-bit two's-complement representative:
\* -1 stands for 0xFFFF_FFFF and I32_MIN for 0x8000_0000 (parity is kept).
EmptyRegistry == <<>>

\* u32::wrapping_add(1) on the representative.
U32WrappingInc(version) ==
    IF version = I32_MAX THEN I32_MIN ELSE version + 1

VacantSlots(reg) == {k \in 1..Len(reg) : reg[k].version % 2 = 0}

\* The slots an insertion may use: a vacant one when there is one (which one
\* is the slot map's free-list policy), otherwise a new slot at the end.
InsertSlots(reg) ==
    IF VacantSlots(reg) # {} THEN VacantSlots(reg) ELSE {Len(reg) + 1}

\* The key an insertion into slot idx hands out: the vacant slot's version
\* made odd, or version 1 for a new slot.
KeyAt(reg, idx) ==
    OrderId(idx, IF idx <= Len(reg) THEN reg[idx].version + 1 ELSE 1)

\* add_order into slot idx: the registry afterwards.
add_order(reg, idx, order, epoch) ==
    LET id == KeyAt(reg, idx)
        slot == [version |-> id.version,
                 value |-> <<init_from_order(id, epoch, order)>>]
    IN  IF idx <= Len(reg) THEN [reg EXCEPT ![idx] = slot]
                           ELSE Append(reg, slot)

\* add_get_order returns self[id].clone() of the order just inserted.
add_get_order(reg, idx, order, epoch) ==
    add_order(reg, idx, order, epoch)[idx].value[1]

contains_key(reg, id) ==
    /\ id.idx \in 1..Len(reg)
    /\ reg[id.idx].version = id.version

\* remove_order: the registry afterwards and the Option returned.  The slot
\* map bumps the version of the slot it frees.
remove_order(reg, id) ==
    IF contains_key(reg, id)
    THEN [orders |-> [reg EXCEPT ![id.idx] =
                         [version |-> U32WrappingInc(@.version), value |-> <<>>]],
          returned |-> reg[id.idx].value]
    ELSE [orders |-> reg, returned |-> <<>>]

\* get: Some(order) for a live key, None otherwise.
get(reg, id) == IF contains_key(reg, id) THEN reg[id.idx].value ELSE <<>>

\* modify_order: overwrites the record under order.id if that key is live.
modify_order(reg, order) ==
    IF contains_key(reg, order.id)
    THEN [reg EXCEPT ![order.id.idx].value = <<order>>]
    ELSE reg

\* The keys of the orders the registry holds, and orders.len().
LiveIds(reg) ==
    {OrderId(k, reg[k].version) : k \in {m \in 1..Len(reg) : reg[m].version % 2 = 1}}

RegistryLen(reg) == Cardinality(LiveIds(reg))

----------------------------------------------------------------------------
(* sorted_vec_orders.rs *)

SortedOrders_new(order_type) == [order_type |-> order_type, orders |-> <<>>]

\* The comparator of the side: a strictly before b.
\* Buy: b.rate.cmp(&a.rate) is Less; Sell: a.rate.cmp(&b.rate) is Less.
Before(order_type, a, b) ==
    IF order_type = "Buy" THEN b.rate < a.rate ELSE a.rate < b.rate

\* The number of elements of os that are strictly before os[k].
Rank(order_type, os, k) ==
    Cardinality({m \in 1..Len(os) : Before(order_type, os[m], os[k])})

\* The elements of os that compare equal to os[k] (os[k] among them).
Ties(order_type, os, k) ==
    {m \in 1..Len(os) : /\ ~Before(order_type, os[m], os[k])
                        /\ ~Before(order_type, os[k], os[m])}

\* os rearranged so that os[k] stands at place[k].
Arrange(os, place) ==
    [p \in 1..Len(os) |-> os[CHOOSE k \in 1..Len(os) : place[k] = p]]

\* sort_unstable_by: every arrangement of os in which no element stands
\* behind one it is strictly before; the order among equal rates is not
\* determined.  An element goes to its rank plus a place among its ties.
SortUnstable(order_type, os) ==
    IF os = <<>> THEN {<<>>}
    ELSE
    LET n == Len(os)
        rank == [k \in 1..n |-> Rank(order_type, os, k)]
        ties == [k \in 1..n |-> Ties(order_type, os, k)]
        width == CHOOSE c \in 1..n :
                    /\ \E k \in 1..n : Cardinality(ties[k]) = c
                    /\ \A k \in 1..n : Cardinality(ties[k]) <= c
        offsets == {f \in [1..n -> 0..(width - 1)] :
                      \A k \in 1..n :
                         /\ f[k] < Cardinality(ties[k])
                         /\ \A m \in ties[k] : m # k => f[m] # f[k]}
    IN  { Arrange(os, [k \in 1..n |-> rank[k] + f[k] + 1]) : f \in offsets }

\* par_sort_by is a stable sort: equal rates keep their relative order.
SortStable(order_type, os) ==
    LET n == Len(os)
        rank == [k \in 1..n |-> Rank(order_type, os, k)]
        ties == [k \in 1..n |-> Ties(order_type, os, k)]
    IN  Arrange(os, [k \in 1..n |->
                       rank[k] + Cardinality({m \in ties[k] : m < k}) + 1])

\* Mutant: the left stream is taken whenever it has an element.
MergeTakesLeft_LeftFirst(hasLeft, hasRight, leftFirst) == hasLeft

\* MergeIter::next: with both streams non-empty the custom ordering decides
\* (true takes the left stream); otherwise the stream that still has
\* elements is taken.
MergeTakesLeft(hasLeft, hasRight, leftFirst) ==
    IF hasLeft /\ hasRight THEN leftFirst ELSE hasLeft

\* Mutant: the two streams chained instead of merged.
Merge_Chain(order_type, left, right) == left \o right

\* One call of MergeIter::next: i and j count the elements taken from the
\* left and the right stream, out collects what the merge has yielded.
MergeStep(order_type, left, right, m) ==
    LET hasLeft == m.i < Len(left)
        hasRight == m.j < Len(right)
    IN  IF ~hasLeft /\ ~hasRight THEN m
        ELSE IF MergeTakesLeft(hasLeft, hasRight,
                               hasLeft /\ hasRight
                               /\ Before(order_type, left[m.i + 1], right[m.j + 1]))
        THEN [m EXCEPT !.i = @ + 1, !.out = Append(@, left[m.i + 1])]
        ELSE [m EXCEPT !.j = @ + 1, !.out = Append(@, right[m.j + 1])]

RECURSIVE MergeSteps(_, _, _, _, _)
\* n calls of next, one after the other.
MergeSteps(order_type, left, right, m, n) ==
    IF n = 0 THEN m
    ELSE IF n = 1 THEN MergeStep(order_type, left, right, m)
    ELSE LET half == MergeSteps(order_type, left, right, m, n \div 2) IN
         IF half.i = Len(left) /\ half.j = Len(right) THEN half
         ELSE MergeSteps(order_type, left, right, half, n - (n \div 2))

\* MergeIter::with_custom_ordering(left, right, |a, b| Before(a, b)).collect()
Merge(order_type, left, right) ==
    MergeSteps(order_type, left, right, [i |-> 0, j |-> 0, out |-> <<>>],
               Len(left) + Len(right)).out

\* add_batch: the orders of the book afterwards (the buffer is taken).
add_batch(book, batch) ==
    [book EXCEPT !.orders = SortStable(book.order_type, @ \o batch)]

\* Mutant: only the newcomers are filtered, the book's own orders stay.
add_remove_batch_KeepStale(book, batch, reg) ==
    LET live(order) == contains_key(reg, order.id) IN
    { [book EXCEPT !.orders =
          Merge(book.order_type, SelectSeq(sorted, live), @)] :
      sorted \in SortUnstable(book.order_type, batch) }

\* add_remove_batch: the books it can produce, one per outcome of the
\* unstable sort of the newcomers.
add_remove_batch(book, batch, reg) ==
    LET live(order) == contains_key(reg, order.id) IN
    { [book EXCEPT !.orders =
          Merge(book.order_type, SelectSeq(sorted, live), SelectSeq(@, live))] :
      sorted \in SortUnstable(book.order_type, batch) }

\* add_remove_hash_set_batch: as add_remove_batch, filtering on a set of
\* ids to remove (the set is taken, too).
add_remove_hash_set_batch(book, batch, remove_set) ==
    LET kept(order) == order.id \notin remove_set IN
    { [book EXCEPT !.orders =
          Merge(book.order_type, SelectSeq(sorted, kept), SelectSeq(@, kept))] :
      sorted \in SortUnstable(book.order_type, batch) }

\* Mutant: retain keeps the orders whose id is a key of the map.
remove_batch_Inverted(book, keys) ==
    LET kept(order) == order.id \in keys IN
    [book EXCEPT !.orders = SelectSeq(@, kept)]

\* remove_batch: retain the orders whose id is not a key of the map.
remove_batch(book, keys) ==
    LET kept(order) == order.id \notin keys IN
    [book EXCEPT !.orders = SelectSeq(@, kept)]

\* Vec::pop through DerefMut: the book without its last element.
pop(book) ==
    [book EXCEPT !.orders = SubSeq(@, 1, Len(@) - 1)]

----------------------------------------------------------------------------
(* market.rs *)

Trade(order, rate, quantity) ==
    [order |-> order, rate |-> rate, quantity |-> quantity]

\* Option<Price>
None == <<>>

Some(x) == <<x>>

\* A call that unwinds instead of returning; line is where it panics.
Panic(line) == [status |-> "panic", line |-> line]

no_trade(open_bids, open_asks) ==
    [status |-> "ok",
     open_bids |-> open_bids,
     open_asks |-> open_asks,
     trades |-> <<>>,
     traded_volume |-> 0,
     traded_rate |-> None,
     bids_matched |-> 0,
     asks_matched |-> 0]

\* aggregate_quantity: the closure adds the order's quantity to the running
\* u64 sum it keeps and yields the sum with the order.
AggregateQuantity(quantity, order) == quantity + order.quantity

\* Mutant: the ordering with ties going to the buy stream.
BalancedOrdering_TiesToBuy(bid_volume, ask_volume) == bid_volume <= ask_volume

\* The ordering closure of the balanced merge: bid_volume < ask_volume.
BalancedOrdering(bid_volume, ask_volume) == bid_volume < ask_volume

\* i and j count the elements taken from bids_iter and asks_iter, bid_sum and
\* ask_sum are the running sums of their aggregate_quantity closures.
WalkStart ==
    [i |-> 0, j |-> 0, bid_sum |-> 0, ask_sum |-> 0, flag |-> FALSE,
     bid |-> I32_MAX, ask |-> I32_MIN,
     bid_idx |-> 0, ask_idx |-> 0,
     bid_volume |-> 0, ask_volume |-> 0,
     total_matched |-> 0]

\* The take_while closure applied to one element (order, volume) of the
\* merged stream: the walk state after the element, and whether it was taken.
TakeWhile(w, order, volume) ==
    IF order.order_type = "Buy" /\ order.rate >= w.ask
    THEN [taken |-> TRUE,
          w |-> [w EXCEPT !.bid_volume = volume,
                          !.bid_idx = @ + 1,
                          !.bid = order.rate,
                          !.total_matched = @ + 1]]
    ELSE IF order.order_type = "Sell" /\ w.bid >= order.rate
    THEN [taken |-> TRUE,
          w |-> [w EXCEPT !.ask_volume = volume,
                          !.ask = order.rate,
                          !.ask_idx = @ + 1,
                          !.total_matched = @ + 1]]
    ELSE [taken |-> FALSE, w |-> w]

\* The cumulative quantity the next element of bids_iter (asks_iter) would
\* carry; 0 stands for a stream that has no next element.
NextBidVolume(B, w) ==
    IF w.i < Len(B) THEN AggregateQuantity(w.bid_sum, B[w.i + 1]) ELSE 0

NextAskVolume(A, w) ==
    IF w.j < Len(A) THEN AggregateQuantity(w.ask_sum, A[w.j + 1]) ELSE 0

\* Does the merge yield the next buy element (TRUE) or the next sell element?
WalkTakesBuy(B, A, w) ==
    MergeTakesLeft(w.i < Len(B), w.j < Len(A),
                   BalancedOrdering(NextBidVolume(B, w), NextAskVolume(A, w)))

\* One element of balanced_orders.take_while(..): the merge peeks the next
\* element of each stream and takes the one its ordering puts first; the
\* closure accepts it or ends the walk (flag is TakeWhile's own flag).
WalkStep(B, A, w) ==
    IF w.flag \/ (w.i >= Len(B) /\ w.j >= Len(A)) THEN [w EXCEPT !.flag = TRUE]
    ELSE IF WalkTakesBuy(B, A, w)
    THEN LET step == TakeWhile(w, B[w.i + 1], NextBidVolume(B, w)) IN
         IF step.taken
         THEN [step.w EXCEPT !.i = @ + 1, !.bid_sum = NextBidVolume(B, w)]
         ELSE [w EXCEPT !.flag = TRUE]
    ELSE LET step == TakeWhile(w, A[w.j + 1], NextAskVolume(A, w)) IN
         IF step.taken
         THEN [step.w EXCEPT !.j = @ + 1, !.ask_sum = NextAskVolume(A, w)]
         ELSE [w EXCEPT !.flag = TRUE]

RECURSIVE WalkSteps(_, _, _, _)
\* n elements of the merged stream, one after the other.
WalkSteps(B, A, w, n) ==
    IF n = 0 THEN w
    ELSE IF n = 1 THEN WalkStep(B, A, w)
    ELSE LET half == WalkSteps(B, A, w, n \div 2) IN
         IF half.flag THEN half
         ELSE WalkSteps(B, A, half, n - (n \div 2))

\* .count(): the merged stream has Len(B) + Len(A) elements at most.
EquilibriumWalk(B, A, w) == WalkSteps(B, A, w, Len(B) + Len(A))

\* i32 addition: does it leave the 32-bit range, and what it wraps to.
I32AddOverflows(x, y) ==
    \/ y > 0 /\ x > I32_MAX - y
    \/ y < 0 /\ x < I32_MIN - y

I32WrappingAdd(x, y) ==
    IF y > 0 /\ x > I32_MAX - y THEN ((x - I32_MAX) + (y - I32_MAX)) - 2
    ELSE IF y < 0 /\ x < I32_MIN - y THEN (x - I32_MIN) + (y - I32_MIN)
    ELSE x + y

\* i32 division by 2 truncates toward zero.
I32Div2(x) == IF x >= 0 THEN x \div 2 ELSE (x + 1) \div 2

\* Mutant: the sum of the two rates, not halved.
ClearingRate_NotHalved(bid_rate, ask_rate) == I32WrappingAdd(bid_rate, ask_rate)

\* (bid.rate + ask.rate) / 2
ClearingRate(bid_rate, ask_rate) == I32Div2(I32WrappingAdd(bid_rate, ask_rate))

\* Vec indexing and drain(0..=idx) are valid for 0 <= idx < len only.
InBounds(os, idx) == 0 <= idx /\ idx < Len(os)

RECURSIVE WalkBack(_, _, _, _)
\* while volume - os[idx].quantity > other_volume { volume -= ..; idx -= 1 }
\* The loop cannot run at idx = 0: the volume left there is the quantity of
\* os[0] itself, and 0 > other_volume is false.
WalkBack(os, idx, volume, other_volume) ==
    IF volume - os[idx + 1].quantity > other_volume
    THEN WalkBack(os, idx - 1, volume - os[idx + 1].quantity, other_volume)
    ELSE [idx |-> idx, volume |-> volume]

\* Mutant: the boundary order filled in full.
PartialQuantity_Full(order, volume, other_volume) == order.quantity

\* Mutant: the excess of the longer side instead of the fill.
PartialQuantity_Excess(order, volume, other_volume) == volume - other_volume

\* The quantity of the partially filled boundary order.  After the loop
\* other_volume < volume <= other_volume + order.quantity, so the u64 value
\* lies in 0..order.quantity and the cast to u32 keeps it.
PartialQuantity(order, volume, other_volume) ==
    (order.quantity + other_volume) - volume

\* Mutant: the drained sells chained before the drained buys.
DrainedTrades_SellsFirst(B, bid_idx, A, ask_idx, rate) ==
    [k \in 1..(ask_idx + 1) |-> Trade(A[k], rate, A[k].quantity)]
    \o [k \in 1..(bid_idx + 1) |-> Trade(B[k], rate, B[k].quantity)]

\* Mutant: every drained order traded at its own limit rate.
DrainedTrades_LimitRate(B, bid_idx, A, ask_idx, rate) ==
    [k \in 1..(bid_idx + 1) |-> Trade(B[k], B[k].rate, B[k].quantity)]
    \o [k \in 1..(ask_idx + 1) |-> Trade(A[k], A[k].rate, A[k].quantity)]

\* deals.extend(bids.drain(0..=bid_idx).chain(asks.drain(0..=ask_idx)).map(..))
DrainedTrades(B, bid_idx, A, ask_idx, rate) ==
    [k \in 1..(bid_idx + 1) |-> Trade(B[k], rate, B[k].quantity)]
    \o [k \in 1..(ask_idx + 1) |-> Trade(A[k], rate, A[k].quantity)]

\* Mutant: the partially filled order is not counted.
OrdersMatched_DrainedOnly(partial, idx) == idx + 1

\* bid_orders_matched / ask_orders_matched: 1 for a partial fill on the side
\* (lines 113, 128) plus idx + 1 (lines 133, 134).
OrdersMatched(partial, idx) == (IF partial THEN 1 ELSE 0) + (idx + 1)

\* Mutant: the drain takes 0..idx, leaving the order at idx in the book.
AfterDrain_Exclusive(book, idx) ==
    [book EXCEPT !.orders = SubSeq(@, idx + 1, Len(@))]

\* What is left of a book after drain(0..=idx).
AfterDrain(book, idx) ==
    [book EXCEPT !.orders = SubSeq(@, idx + 2, Len(@))]

\* Lines 87..157: the result once the walk matched at least two elements.
\* bid_idx0 and ask_idx0 are the indexes after lines 74 and 75.
BuildResult(bids0, asks0, w, bid_idx0, ask_idx0, overflow_checks) ==
    LET B == bids0.orders
        A == asks0.orders
    IN
    IF ~InBounds(B, bid_idx0) \/ ~InBounds(A, ask_idx0) THEN Panic(93)
    ELSE
    LET bid == B[bid_idx0 + 1]
        ask == A[ask_idx0 + 1]
    IN
    IF overflow_checks /\ I32AddOverflows(bid.rate, ask.rate) THEN Panic(95)
    ELSE
    LET rate == ClearingRate(bid.rate, ask.rate)
        buyPartial == w.bid_volume > w.ask_volume
        sellPartial == w.bid_volume < w.ask_volume
        back == IF buyPartial
                THEN WalkBack(B, bid_idx0, w.bid_volume, w.ask_volume)
                ELSE IF sellPartial
                THEN WalkBack(A, ask_idx0, w.ask_volume, w.bid_volume)
                ELSE [idx |-> 0, volume |-> 0]
        deals == IF buyPartial
                 THEN <<Trade(B[back.idx + 1], rate,
                          PartialQuantity(B[back.idx + 1], back.volume, w.ask_volume))>>
                 ELSE IF sellPartial
                 THEN <<Trade(A[back.idx + 1], rate,
                          PartialQuantity(A[back.idx + 1], back.volume, w.bid_volume))>>
                 ELSE <<>>
        traded_volume == IF buyPartial THEN w.ask_volume ELSE w.bid_volume
        \* bid_idx -= 1 (line 112) or ask_idx -= 1 (line 127)
        bid_idx == IF buyPartial THEN back.idx - 1 ELSE bid_idx0
        ask_idx == IF sellPartial THEN back.idx - 1 ELSE ask_idx0
    IN
    IF overflow_checks /\ buyPartial /\ back.idx = 0 THEN Panic(112)
    ELSE IF overflow_checks /\ sellPartial /\ back.idx = 0 THEN Panic(127)
    ELSE IF ~InBounds(B, bid_idx) THEN Panic(137)
    ELSE IF ~InBounds(A, ask_idx) THEN Panic(138)
    ELSE
        [status |-> "ok",
         open_bids |-> AfterDrain(bids0, bid_idx),
         open_asks |-> AfterDrain(asks0, ask_idx),
         trades |-> deals \o DrainedTrades(B, bid_idx, A, ask_idx, rate),
         traded_volume |-> traded_volume,
         traded_rate |-> Some(rate),
         bids_matched |-> OrdersMatched(buyPartial, bid_idx),
         asks_matched |-> OrdersMatched(sellPartial, ask_idx)]

\* pub fn market_match(bids, asks) -> MarketMatchResult, for a build with
\* overflow checks on (debug profile) or off (release profile).
market_match(bids0, asks0, overflow_checks) ==
    LET w == EquilibriumWalk(bids0.orders, asks0.orders, WalkStart) IN
    IF overflow_checks /\ w.bid_idx = 0 THEN Panic(74)
    ELSE IF overflow_checks /\ w.ask_idx = 0 THEN Panic(75)
    ELSE IF w.total_matched < 2 THEN no_trade(bids0, asks0)
    ELSE BuildResult(bids0, asks0, w, w.bid_idx - 1, w.ask_idx - 1, overflow_checks)

----------------------------------------------------------------------------
(* Spec: market_match applied to every pair of sorted books within the     *)
(* bounds.  The orders of a book carry the ids a fresh registry would have *)
(* handed out: buys in slots 1.., sells in the slots after MaxLen.         *)

NoResult == [status |-> "none"]

NoTest == <<>>

\* No rayon::join is running.
NoTasks == [buy |-> "idle", sell |-> "idle"]

NoFork == <<>>

\* No order has traded yet.
NoFills == <<>>

\* main.rs lines 56..75: the driver's variables before the first request.
DriverStart ==
    /\ cancel_ids = {}
    /\ cancel_is_bid = TRUE
    /\ driver_epoch = 0
    /\ input = 0
    /\ tasks = NoTasks
    /\ fork = NoFork
    /\ filled = NoFills

\* The order the tests assert: no neighbour pair is out of direction.
IsSorted(order_type, os) ==
    \A k \in 1..(Len(os) - 1) :
        IF order_type = "Buy" THEN os[k].rate >= os[k + 1].rate
                              ELSE os[k].rate <= os[k + 1].rate

BookInputs(order_type, firstSlot, Rates) ==
    UNION { { [order_type |-> order_type,
               orders |-> [k \in 1..n |->
                   RegisteredOrder(OrderId(firstSlot + k - 1, 1), 0, order_type,
                                   rs[k], qs[k])]] :
              rs \in { f \in [1..n -> Rates] :
                         \A k \in 1..(n - 1) :
                            IF order_type = "Buy" THEN f[k] >= f[k + 1]
                                                  ELSE f[k] <= f[k + 1] },
              qs \in [1..n -> Quantities] } : n \in 0..MaxLen }

Init ==
    /\ pc = "start"
    /\ \E base \in RateBases :
          /\ bids \in BookInputs("Buy", 1, RatesAt(base))
          /\ asks \in BookInputs("Sell", MaxLen + 1, RatesAt(base))
    /\ result = NoResult
    /\ registered = EmptyRegistry
    /\ buy_batch = <<>>
    /\ sell_batch = <<>>
    /\ test = NoTest
    /\ DriverStart

\* The call market_match(bids, asks); the build decides whether arithmetic
\* overflow panics or wraps.
MarketMatch ==
    /\ pc = "start"
    /\ \E overflow_checks \in BOOLEAN :
          result' = market_match(bids, asks, overflow_checks)
    /\ pc' = "matched"
    /\ UNCHANGED <<bids, asks, registered, buy_batch, sell_batch, test, driverVars>>

Next == MarketMatch

Spec == Init /\ [][Next]_vars

----------------------------------------------------------------------------
(* BookSpec: one SortedOrders, of either side, under every sequence of its *)
(* mutating operations.  pc names the book being operated.  Its orders     *)
(* carry ids of the slots 1..MaxLen; newcomers carry ids the book does not *)
(* hold.  The book operations never read a quantity, so it is 1.           *)

BookUnderTest == IF pc = "buy_book" THEN bids ELSE asks

SetBook(book) ==
    IF pc = "buy_book" THEN bids' = book /\ asks' = asks
                       ELSE asks' = book /\ bids' = bids

BookIds == {OrderId(k, 1) : k \in 1..MaxLen}

IdsOf(os) == {os[k].id : k \in 1..Len(os)}

\* The k-th lowest slot whose id the orders os do not hold.
FreeSlot(os, k) ==
    CHOOSE s \in 1..MaxLen :
        /\ OrderId(s, 1) \notin IdsOf(os)
        /\ Cardinality({t \in 1..s : OrderId(t, 1) \notin IdsOf(os)}) = k

\* The batches of new orders a caller may hand to the book: any rates, in
\* any order, under the lowest ids the book does not hold.
Newcomers(book) ==
    UNION { { [k \in 1..n |->
                 RegisteredOrder(OrderId(FreeSlot(book.orders, k), 1), 0,
                                 book.order_type, rs[k], 1)] :
              rs \in [1..n -> RatesAt(0 - 2)] } :
            n \in 0..(MaxLen - Len(book.orders)) }

\* A registry in which exactly the ids of live are contained: the other
\* slots have been vacated once.
RegistryOf(live) ==
    [k \in 1..MaxLen |->
        IF OrderId(k, 1) \in live THEN [version |-> 1, value |-> <<>>]
                                  ELSE [version |-> 2, value |-> <<>>]]

BookInit ==
    /\ pc \in {"buy_book", "sell_book"}
    /\ bids = SortedOrders_new("Buy")
    /\ asks = SortedOrders_new("Sell")
    /\ result = NoResult
    /\ registered = EmptyRegistry
    /\ buy_batch = <<>>
    /\ sell_batch = <<>>
    /\ test = NoTest
    /\ DriverStart

AddBatch ==
    /\ pc \in {"buy_book", "sell_book"}
    /\ \E batch \in Newcomers(BookUnderTest) :
          SetBook(add_batch(BookUnderTest, batch))
    /\ UNCHANGED <<pc, result, registered, buy_batch, sell_batch, test, driverVars>>

RemoveBatch ==
    /\ pc \in {"buy_book", "sell_book"}
    /\ \E keys \in SUBSET BookIds :
          SetBook(remove_batch(BookUnderTest, keys))
    /\ UNCHANGED <<pc, result, registered, buy_batch, sell_batch, test, driverVars>>

AddRemoveBatch ==
    /\ pc \in {"buy_book", "sell_book"}
    /\ \E batch \in Newcomers(BookUnderTest), live \in SUBSET BookIds :
          \E book \in add_remove_batch(BookUnderTest, batch, RegistryOf(live)) :
              SetBook(book)
    /\ UNCHANGED <<pc, result, registered, buy_batch, sell_batch, test, driverVars>>

AddRemoveHashSetBatch ==
    /\ pc \in {"buy_book", "sell_book"}
    /\ \E batch \in Newcomers(BookUnderTest), remove \in SUBSET BookIds :
          \E book \in add_remove_hash_set_batch(BookUnderTest, batch, remove) :
              SetBook(book)
    /\ UNCHANGED <<pc, result, registered, buy_batch, sell_batch, test, driverVars>>

\* The matcher's drain(0..=idx) of a prefix of the book.
DrainPrefix ==
    /\ pc \in {"buy_book", "sell_book"}
    /\ \E idx \in 0..(Len(BookUnderTest.orders) - 1) :
          SetBook(AfterDrain(BookUnderTest, idx))
    /\ UNCHANGED <<pc, result, registered, buy_batch, sell_batch, test, driverVars>>

\* The driver's bids.pop() / asks.pop().
Pop ==
    /\ pc \in {"buy_book", "sell_book"}
    /\ BookUnderTest.orders # <<>>
    /\ SetBook(pop(BookUnderTest))
    /\ UNCHANGED <<pc, result, registered, buy_batch, sell_batch, test, driverVars>>

BookNext ==
    \/ AddBatch
    \/ RemoveBatch
    \/ AddRemoveBatch
    \/ AddRemoveHashSetBatch
    \/ DrainPrefix
    \/ Pop

BookSpec == BookInit /\ [][BookNext]_vars

----------------------------------------------------------------------------
(* ScenarioSpec: the unit tests of market.rs.  test_data registers n buy   *)
(* orders and n sell orders at the rates 1..n with one quantity per side,  *)
(* builds both books with add_remove_batch, and the test calls             *)
(* market_match on them.                                                   *)

\* The three unit tests of market.rs.
S1 == [n |-> 100, buy_quantity |-> 1, sell_quantity |-> 1]

S2 == [n |-> 100, buy_quantity |-> 10, sell_quantity |-> 1]

S3 == [n |-> 100, buy_quantity |-> 1, sell_quantity |-> 10]

\* 10 buys of quantity 10 at rates 10..1, 10 sells of quantity 7 at 1..10.
S6 == [n |-> 10, buy_quantity |-> 10, sell_quantity |-> 7]

Scenarios == {S1, S2, S3, S6}

ScenarioInit ==
    /\ pc = "buy_samples"
    /\ test \in Scenarios
    /\ bids = SortedOrders_new("Buy")
    /\ asks = SortedOrders_new("Sell")
    /\ result = NoResult
    /\ registered = EmptyRegistry
    /\ buy_batch = <<>>
    /\ sell_batch = <<>>
    /\ DriverStart

\* test_order(&mut orders, i, buy_quantity, OrderType::Buy), for the next i
BuySample ==
    /\ pc = "buy_samples"
    /\ LET i == Len(buy_batch) + 1
           order == Order("Buy", i, test.buy_quantity)
       IN  \E idx \in InsertSlots(registered) :
              /\ registered' = add_order(registered, idx, order, 0)
              /\ buy_batch' = Append(buy_batch, add_get_order(registered, idx, order, 0))
              /\ pc' = IF i = test.n THEN "sell_samples" ELSE "buy_samples"
    /\ UNCHANGED <<bids, asks, result, sell_batch, test, driverVars>>

\* test_order(&mut orders, i, sell_quantity, OrderType::Sell), for the next i
SellSample ==
    /\ pc = "sell_samples"
    /\ LET i == Len(sell_batch) + 1
           order == Order("Sell", i, test.sell_quantity)
       IN  \E idx \in InsertSlots(registered) :
              /\ registered' = add_order(registered, idx, order, 0)
              /\ sell_batch' = Append(sell_batch, add_get_order(registered, idx, order, 0))
              /\ pc' = IF i = test.n THEN "buy_orders" ELSE "sell_samples"
    /\ UNCHANGED <<bids, asks, result, buy_batch, test, driverVars>>

\* buy_orders.add_remove_batch(&mut buy_samples, &orders)
BuyOrders ==
    /\ pc = "buy_orders"
    /\ bids' \in add_remove_batch(bids, buy_batch, registered)
    /\ buy_batch' = <<>>
    /\ pc' = "sell_orders"
    /\ UNCHANGED <<asks, result, registered, sell_batch, test, driverVars>>

\* sell_orders.add_remove_batch(&mut sell_samples, &orders)
SellOrders ==
    /\ pc = "sell_orders"
    /\ asks' \in add_remove_batch(asks, sell_batch, registered)
    /\ sell_batch' = <<>>
    /\ pc' = "start"
    /\ UNCHANGED <<bids, result, registered, buy_batch, test, driverVars>>

ScenarioNext ==
    \/ BuySample
    \/ SellSample
    \/ BuyOrders
    \/ SellOrders
    \/ MarketMatch

ScenarioSpec == ScenarioInit /\ [][ScenarioNext]_vars

----------------------------------------------------------------------------
(* RegistrySpec: one RegisteredOrders under every sequence of add_order,   *)
(* remove_order, get and modify_order, called with live and with stale     *)
(* handles.  cancel_ids remembers the ids whose order was removed.         *)
(* SamplesSpec: the test sorted_orders, generalised: orders are registered *)
(* into the samples buffer of the side, any of them is removed from the    *)
(* registry again, and add_remove_batch merges the buffer into the book.   *)

Samples == IF pc = "buy_book" THEN buy_batch ELSE sell_batch

SetSamples(samples) ==
    IF pc = "buy_book" THEN buy_batch' = samples /\ sell_batch' = sell_batch
                       ELSE sell_batch' = samples /\ buy_batch' = buy_batch

SideOf(p) == IF p = "buy_book" THEN "Buy" ELSE "Sell"

\* The rates of the orders registered here.
SampleRates == {0, 1}

\* A registry whose first slot has been reused until its version is
\* 0xFFFF_FFFE: vacant, two steps before the u32 counter wraps.
AgedRegistry == <<[version |-> 0 - 2, value |-> <<>>]>>

\* The ids the harness still holds handles to: the live ones and those it
\* remembers to have removed.
KnownIds == LiveIds(registered) \cup cancel_ids

SamplesInit ==
    /\ pc \in {"buy_book", "sell_book"}
    /\ bids = SortedOrders_new("Buy")
    /\ asks = SortedOrders_new("Sell")
    /\ result = NoResult
    /\ registered = EmptyRegistry
    /\ buy_batch = <<>>
    /\ sell_batch = <<>>
    /\ test = NoTest
    /\ DriverStart

RegistryInit ==
    /\ pc \in {"buy_book", "sell_book"}
    /\ bids = SortedOrders_new("Buy")
    /\ asks = SortedOrders_new("Sell")
    /\ result = NoResult
    /\ \/ registered = EmptyRegistry /\ cancel_ids = {}
       \* slot 1 handed out the key (1, 1) when it was new, and freed it
       \/ registered = AgedRegistry /\ cancel_ids = {OrderId(1, 1)}
    /\ buy_batch = <<>>
    /\ sell_batch = <<>>
    /\ test = NoTest
    /\ cancel_is_bid = TRUE
    /\ driver_epoch = 0
    /\ input = 0
    /\ tasks = NoTasks
    /\ fork = NoFork
    /\ filled = NoFills

\* registered.add_order(order, 0)
AddOrder ==
    /\ pc \in {"buy_book", "sell_book"}
    /\ input < MaxLen
    /\ \E rate \in SampleRates, idx \in InsertSlots(registered) :
          registered' = add_order(registered, idx, Order(SideOf(pc), rate, 1), 0)
    /\ input' = input + 1
    /\ UNCHANGED <<pc, bids, asks, result, buy_batch, sell_batch, test,
                   cancel_ids, cancel_is_bid, driver_epoch, filled, tasks, fork>>

\* registered.add_get_order(order, 0), the copy pushed to the samples.
AddGetOrder ==
    /\ pc \in {"buy_book", "sell_book"}
    /\ input < MaxLen
    /\ \E rate \in SampleRates, idx \in InsertSlots(registered) :
          LET order == Order(SideOf(pc), rate, 1) IN
          /\ registered' = add_order(registered, idx, order, 0)
          /\ SetSamples(Append(Samples, add_get_order(registered, idx, order, 0)))
    /\ input' = input + 1
    /\ UNCHANGED <<pc, bids, asks, result, test,
                   cancel_ids, cancel_is_bid, driver_epoch, filled, tasks, fork>>

\* registered.remove_order(id), for a live or a stale handle.
RemoveOrder ==
    /\ pc \in {"buy_book", "sell_book"}
    /\ \E id \in KnownIds :
          LET removed == remove_order(registered, id) IN
          /\ registered' = removed.orders
          /\ cancel_ids' = IF removed.returned # None
                           THEN cancel_ids \cup {id} ELSE cancel_ids
    /\ UNCHANGED <<pc, bids, asks, result, buy_batch, sell_batch, test,
                   cancel_is_bid, driver_epoch, filled, input, tasks, fork>>

\* registered.get(id), for a live or a stale handle: the registry is only
\* read, and the Option it returns is dropped.
Get ==
    /\ pc \in {"buy_book", "sell_book"}
    /\ \E id \in KnownIds : Len(get(registered, id)) \in {0, 1}
    /\ UNCHANGED vars

\* registered.modify_order(order), for a live or a stale handle: a record
\* with that id and another quantity.
ModifyOrder ==
    /\ pc \in {"buy_book", "sell_book"}
    /\ \E id \in KnownIds :
          LET order == RegisteredOrder(id, 0, SideOf(pc), 0, 2) IN
          registered' = modify_order(registered, order)
    /\ UNCHANGED <<pc, bids, asks, result, buy_batch, sell_batch, test, driverVars>>

\* orders.add_remove_batch(&mut samples, &registered); result keeps how
\* many orders the book and the buffer held when the call was made.
AddRemoveSamples ==
    /\ pc \in {"buy_book", "sell_book"}
    /\ \E book \in add_remove_batch(BookUnderTest, Samples, registered) :
          SetBook(book)
    /\ SetSamples(<<>>)
    /\ result' = [status |-> "ok", call |-> "add_remove_batch",
                  held |-> Len(BookUnderTest.orders), taken |-> Len(Samples)]
    /\ UNCHANGED <<pc, registered, test, driverVars>>

RegistryNext ==
    \/ AddOrder
    \/ RemoveOrder
    \/ Get
    \/ ModifyOrder

RegistrySpec == RegistryInit /\ [][RegistryNext]_vars

SamplesNext ==
    \/ AddGetOrder
    \/ RemoveOrder
    \/ AddRemoveSamples

SamplesSpec == SamplesInit /\ [][SamplesNext]_vars

----------------------------------------------------------------------------
(* DriverSpec: the loop of main over its input orders.  pc is the position *)
(* of the driver: "request" before the next input order, "flush" and       *)
(* "epoch" while the rayon::join of a batch flush or of an epoch runs,     *)
(* "market_match" before the auction, "reintegrate" after it, "panicked"   *)
(* once a panic has ended the process.  period.elapsed() is read when a    *)
(* request is done: whether it has reached EPOCH_NS is any boolean.  test  *)
(* holds the build profile of the run.  The statistics are left out.       *)

\* The rate and quantity of the input orders (Order::random, scaled down).
\* Quantity 3 lets a partial fill leave a remainder that differs from the
\* quantity traded.
DriverOrders ==
    {[rate |-> 1, quantity |-> 1], [rate |-> 2, quantity |-> 1],
     [rate |-> 2, quantity |-> 3]}

DriverInit ==
    /\ pc = "request"
    /\ bids = SortedOrders_new("Buy")
    /\ asks = SortedOrders_new("Sell")
    /\ result = NoResult
    /\ registered = EmptyRegistry
    /\ buy_batch = <<>>
    /\ sell_batch = <<>>
    /\ test \in {[overflow_checks |-> b] : b \in BOOLEAN}
    /\ DriverStart

\* SparseSecondaryMap::insert(id, ()): one key per slot, a newer version
\* replaces an older one and an older one is not inserted.
cancel_insert(keys, id) ==
    IF \E k \in keys : k.idx = id.idx /\ k.version > id.version THEN keys
    ELSE {k \in keys : k.idx # id.idx} \cup {id}

\* Step 4 of a request, lines 126..142: where the driver goes for buffers of
\* total length len and a timer that has or has not reached EPOCH_NS.
AfterRequest(len, elapsed) ==
    IF len >= BatchSize /\ ~elapsed THEN "flush"
    ELSE IF elapsed THEN "epoch"
    ELSE "request"

\* The state rayon::join is entered with, for the position next.
Fork(next, bs, as, bb, sb, keys) ==
    IF next = "request" THEN NoFork
    ELSE [bids |-> bs, asks |-> as, buy_batch |-> bb, sell_batch |-> sb,
          cancel_ids |-> keys]

StartTasks(next) ==
    IF next = "request" THEN NoTasks
    ELSE [buy |-> "add_batch", sell |-> "add_batch"]

\* A request that adds an order: lines 99..100, 106, 116..121, then step 4.
AddRequest ==
    /\ pc = "request"
    /\ input < MaxOrders
    /\ \E order_type \in {"Buy", "Sell"}, random \in DriverOrders,
          idx \in InsertSlots(registered), elapsed \in BOOLEAN :
          LET order == Order(order_type, random.rate, random.quantity)
              got == add_get_order(registered, idx, order, driver_epoch)
              bb == IF order_type = "Buy" THEN Append(buy_batch, got) ELSE buy_batch
              sb == IF order_type = "Sell" THEN Append(sell_batch, got) ELSE sell_batch
              next == AfterRequest(Len(bb) + Len(sb), elapsed)
          IN  /\ registered' = add_order(registered, idx, order, driver_epoch)
              /\ buy_batch' = bb
              /\ sell_batch' = sb
              /\ pc' = next
              /\ tasks' = StartTasks(next)
              /\ fork' = Fork(next, bids, asks, bb, sb, cancel_ids)
    /\ input' = input + 1
    /\ UNCHANGED <<bids, asks, result, test, cancel_ids, cancel_is_bid, driver_epoch, filled>>

\* A request that cancels: lines 78..97 pop the last order of the book whose
\* turn it is, line 105 removes it from the registry (a miss panics at line
\* 109), line 114 notes its id, then step 4.
CancelRequest ==
    /\ pc = "request"
    /\ input < MaxOrders
    /\ RegistryLen(registered) >= Circulation
    /\ LET book == IF cancel_is_bid THEN bids ELSE asks IN
       /\ book.orders # <<>>
       /\ LET id == book.orders[Len(book.orders)].id
              removed == remove_order(registered, id)
              bs == IF cancel_is_bid THEN pop(bids) ELSE bids
              as == IF cancel_is_bid THEN asks ELSE pop(asks)
          IN  /\ bids' = bs
              /\ asks' = as
              /\ cancel_is_bid' = ~cancel_is_bid
              /\ registered' = removed.orders
              /\ IF removed.returned = None
                 THEN /\ pc' = "panicked"
                      /\ UNCHANGED <<cancel_ids, tasks, fork>>
                 ELSE \E elapsed \in BOOLEAN :
                        LET keys == cancel_insert(cancel_ids, id)
                            next == AfterRequest(Len(buy_batch) + Len(sell_batch), elapsed)
                        IN  /\ cancel_ids' = keys
                            /\ pc' = next
                            /\ tasks' = StartTasks(next)
                            /\ fork' = Fork(next, bs, as, buy_batch, sell_batch, keys)
    /\ input' = input + 1
    /\ UNCHANGED <<result, buy_batch, sell_batch, test, driver_epoch, filled>>

\* A cancel that finds the book empty: pop() is None and the loop continues
\* with the next input order, skipping step 4.
CancelNothing ==
    /\ pc = "request"
    /\ input < MaxOrders
    /\ RegistryLen(registered) >= Circulation
    /\ (IF cancel_is_bid THEN bids ELSE asks).orders = <<>>
    /\ input' = input + 1
    /\ UNCHANGED <<pc, bids, asks, result, registered, buy_batch, sell_batch, test,
                   cancel_ids, cancel_is_bid, driver_epoch, filled, tasks, fork>>

\* Mutant: both closures of the join work on the buy book.
TaskBookOf_Shared(side) == "bids"

\* The book each closure of rayon::join captures: lines 131..132 and
\* 148..149 name bids, lines 135..136 and 152..153 name asks.
TaskBookOf(side) == IF side = "Buy" THEN "bids" ELSE "asks"

BookNamed(name) == IF name = "bids" THEN bids ELSE asks

SetBookNamed(name, book) ==
    IF name = "bids" THEN bids' = book /\ asks' = asks
                     ELSE asks' = book /\ bids' = bids

\* bids.add_batch(&mut buy_batch) in the first closure of the join.
BuyAddBatch ==
    /\ pc \in {"flush", "epoch"}
    /\ tasks.buy = "add_batch"
    /\ SetBookNamed(TaskBookOf("Buy"), add_batch(BookNamed(TaskBookOf("Buy")), buy_batch))
    /\ buy_batch' = <<>>
    /\ tasks' = [tasks EXCEPT !.buy = "remove_batch"]
    /\ UNCHANGED <<pc, result, registered, sell_batch, test,
                   cancel_ids, cancel_is_bid, driver_epoch, filled, input, fork>>

\* bids.remove_batch(&cancel_ids) in the first closure of the join.
BuyRemoveBatch ==
    /\ pc \in {"flush", "epoch"}
    /\ tasks.buy = "remove_batch"
    /\ SetBookNamed(TaskBookOf("Buy"), remove_batch(BookNamed(TaskBookOf("Buy")), cancel_ids))
    /\ tasks' = [tasks EXCEPT !.buy = "done"]
    /\ UNCHANGED <<pc, result, registered, buy_batch, sell_batch, test,
                   cancel_ids, cancel_is_bid, driver_epoch, filled, input, fork>>

\* asks.add_batch(&mut sell_batch) in the second closure of the join.
SellAddBatch ==
    /\ pc \in {"flush", "epoch"}
    /\ tasks.sell = "add_batch"
    /\ SetBookNamed(TaskBookOf("Sell"), add_batch(BookNamed(TaskBookOf("Sell")), sell_batch))
    /\ sell_batch' = <<>>
    /\ tasks' = [tasks EXCEPT !.sell = "remove_batch"]
    /\ UNCHANGED <<pc, result, registered, buy_batch, test,
                   cancel_ids, cancel_is_bid, driver_epoch, filled, input, fork>>

\* asks.remove_batch(&cancel_ids) in the second closure of the join.
SellRemoveBatch ==
    /\ pc \in {"flush", "epoch"}
    /\ tasks.sell = "remove_batch"
    /\ SetBookNamed(TaskBookOf("Sell"), remove_batch(BookNamed(TaskBookOf("Sell")), cancel_ids))
    /\ tasks' = [tasks EXCEPT !.sell = "done"]
    /\ UNCHANGED <<pc, result, registered, buy_batch, sell_batch, test,
                   cancel_ids, cancel_is_bid, driver_epoch, filled, input, fork>>

\* rayon::join returns when both closures have; cancel_ids.clear() follows
\* (lines 139, 156).  A batch flush goes back to the requests, an epoch goes
\* on to the auction.
Join ==
    /\ pc \in {"flush", "epoch"}
    /\ tasks = [buy |-> "done", sell |-> "done"]
    /\ cancel_ids' = {}
    /\ tasks' = NoTasks
    /\ fork' = NoFork
    /\ pc' = IF pc = "flush" THEN "request" ELSE "market_match"
    /\ UNCHANGED <<bids, asks, result, registered, buy_batch, sell_batch, test,
                   cancel_is_bid, driver_epoch, filled, input>>

RECURSIVE TradedOf(_, _)
\* The quantity the trades of one auction fill of the order id.
TradedOf(trades, id) ==
    IF trades = <<>> THEN 0
    ELSE (IF trades[1].order.id = id THEN trades[1].quantity ELSE 0)
         + TradedOf(Tail(trades), id)

\* The quantity the order id carries in the trades of one auction: the
\* quantity of the book's record, which is the clone add_get_order returned
\* when the order was registered (main.rs lines 106, 117, 120).
QuantityOf(trades, id) ==
    LET k == CHOOSE k \in 1..Len(trades) : trades[k].order.id = id
    IN  trades[k].order.quantity

\* The history of fills after the trades of one more auction: per traded
\* order id, the quantity it was registered with and the sum of its trades.
Fills(fills, trades) ==
    LET traded == {trades[k].order.id : k \in 1..Len(trades)} IN
    [id \in DOMAIN fills \cup traded |->
        IF id \in DOMAIN fills
        THEN [fills[id] EXCEPT !.traded = @ + TradedOf(trades, id)]
        ELSE [quantity |-> QuantityOf(trades, id),
              traded |-> TradedOf(trades, id)]]

\* Lines 163..183: market_match takes both books, and the books of the next
\* epoch are the open books of its result.  A panic ends the process.
DriverMatch ==
    /\ pc = "market_match"
    /\ LET match_result == market_match(bids, asks, test.overflow_checks) IN
       /\ result' = match_result
       /\ IF match_result.status = "panic"
          THEN /\ pc' = "panicked"
               /\ bids' = SortedOrders_new("Buy")
               /\ asks' = SortedOrders_new("Sell")
          ELSE /\ pc' = "reintegrate"
               /\ bids' = match_result.open_bids
               /\ asks' = match_result.open_asks
       /\ filled' = IF match_result.status = "panic" THEN filled
                    ELSE Fills(filled, match_result.trades)
    /\ UNCHANGED <<registered, buy_batch, sell_batch, test,
                   cancel_ids, cancel_is_bid, driver_epoch, input, tasks, fork>>

\* Mutant: every traded order is removed, the partially filled one too.
Reintegrated_RemoveAll(reg, trades) ==
    LET traded == {trades[k].order.id : k \in 1..Len(trades)} IN
    [k \in 1..Len(reg) |->
        IF OrderId(k, reg[k].version) \in traded
        THEN [version |-> U32WrappingInc(reg[k].version), value |-> <<>>]
        ELSE reg[k]]

RECURSIVE Reintegrated(_, _)
\* Lines 204..212 over the trades, first to last: a trade of the order's
\* whole quantity removes the order, any other trade stores the order with
\* the trade's quantity as its quantity.
Reintegrated(reg, trades) ==
    IF trades = <<>> THEN reg
    ELSE LET deal == trades[1]
             next == IF deal.quantity = deal.order.quantity
                     THEN remove_order(reg, deal.order.id).orders
                     ELSE modify_order(reg, [deal.order EXCEPT !.quantity = deal.quantity])
         IN  Reintegrated(next, Tail(trades))

\* Lines 199..212: the next epoch begins and the registry takes the trades;
\* match_result is dropped at the end of the iteration.
Reintegrate ==
    /\ pc = "reintegrate"
    /\ driver_epoch' = driver_epoch + 1
    /\ registered' = Reintegrated(registered, result.trades)
    /\ result' = NoResult
    /\ pc' = "request"
    /\ UNCHANGED <<bids, asks, buy_batch, sell_batch, test,
                   cancel_ids, cancel_is_bid, input, tasks, fork, filled>>

DriverNext ==
    \/ AddRequest
    \/ CancelRequest
    \/ CancelNothing
    \/ BuyAddBatch
    \/ BuyRemoveBatch
    \/ SellAddBatch
    \/ SellRemoveBatch
    \/ Join
    \/ DriverMatch
    \/ Reintegrate

DriverSpec == DriverInit /\ [][DriverNext]_vars

----------------------------------------------------------------------------
(* Claims *)

RECURSIVE SumRange(_, _, _)
\* The sum of the quantities of ts[lo..hi].
SumRange(ts, lo, hi) ==
    IF lo > hi THEN 0
    ELSE IF lo = hi THEN ts[lo].quantity
    ELSE SumRange(ts, lo, (lo + hi) \div 2) + SumRange(ts, (lo + hi) \div 2 + 1, hi)

SumQuantity(ts) == SumRange(ts, 1, Len(ts))

IsBuyTrade(t) == t.order.order_type = "Buy"

IsSellTrade(t) == t.order.order_type = "Sell"

\* market_match has returned a result (it did not panic).
Returned == pc = "matched" /\ result.status = "ok"

TradeIndexes == 1..Len(result.trades)

\* The state of the equilibrium walk over the books that were matched.
WalkOfInput == EquilibriumWalk(bids.orders, asks.orders, WalkStart)

\* C1: in every returned result the quantities of the buy trades and of the
\* sell trades sum to the same value, which is traded_volume.
C1_VolumeConservation ==
    Returned =>
        /\ SumQuantity(SelectSeq(result.trades, IsBuyTrade)) = result.traded_volume
        /\ SumQuantity(SelectSeq(result.trades, IsSellTrade)) = result.traded_volume

\* C1 witness: a result with a partially filled boundary order of positive
\* quantity and full trades on both sides.
C1_Witness ==
    /\ Returned
    /\ result.traded_volume > 0
    /\ \E k \in TradeIndexes :
          /\ result.trades[k].quantity > 0
          /\ result.trades[k].quantity < result.trades[k].order.quantity
    /\ \E k \in TradeIndexes : IsBuyTrade(result.trades[k])
                                /\ result.trades[k].quantity = result.trades[k].order.quantity
    /\ \E k \in TradeIndexes : IsSellTrade(result.trades[k])
                                /\ result.trades[k].quantity = result.trades[k].order.quantity

\* C2: every returned trade has 0 < quantity <= order.quantity.
C2_TradeQuantityInRange ==
    Returned =>
        \A k \in TradeIndexes :
            /\ 0 < result.trades[k].quantity
            /\ result.trades[k].quantity <= result.trades[k].order.quantity

\* C3: with a clearing rate, every open bid has rate <= the clearing rate and
\* every open ask has rate >= the clearing rate.
C3_NoLeftoverCrossings ==
    (Returned /\ result.traded_rate # None) =>
        /\ \A k \in 1..Len(result.open_bids.orders) :
              result.open_bids.orders[k].rate <= result.traded_rate[1]
        /\ \A k \in 1..Len(result.open_asks.orders) :
              result.open_asks.orders[k].rate >= result.traded_rate[1]

\* C4: when either book is empty the walk accepts no element and the call
\* returns the no-trade result.
C4_EmptyBookNoTrade ==
    (pc = "matched" /\ (bids.orders = <<>> \/ asks.orders = <<>>)) =>
        /\ WalkOfInput.total_matched = 0
        /\ result = no_trade(bids, asks)

\* C5: for non-empty books whose buy rates all lie strictly below all sell
\* rates the call returns no trade and hands the books back unchanged.
C5_NoCrossNoTrade ==
    (/\ pc = "matched"
     /\ bids.orders # <<>>
     /\ asks.orders # <<>>
     /\ \A i \in 1..Len(bids.orders) : \A j \in 1..Len(asks.orders) :
            bids.orders[i].rate < asks.orders[j].rate) =>
        /\ result.status = "ok"
        /\ result.traded_rate = None
        /\ result.trades = <<>>
        /\ result.open_bids = bids
        /\ result.open_asks = asks

\* C6: every trade of a returned result carries the result's traded_rate.
C6_UniformPrice ==
    Returned =>
        \A k \in TradeIndexes : Some(result.trades[k].rate) = result.traded_rate

\* C6 witness: a result holding a partial-fill trade, a full buy trade and a
\* full sell trade whose orders have different limit rates.
C6_Witness ==
    /\ Returned
    /\ \E k \in TradeIndexes :
          result.trades[k].quantity < result.trades[k].order.quantity
    /\ \E k, l \in TradeIndexes :
          /\ IsBuyTrade(result.trades[k])
          /\ IsSellTrade(result.trades[l])
          /\ result.trades[k].order.rate # result.trades[l].order.rate

Matched(scenario, rate, volume) ==
    (pc = "matched" /\ test = scenario) =>
        /\ result.status = "ok"
        /\ result.traded_rate = Some(rate)
        /\ result.traded_volume = volume

\* C8: 100 buys and 100 sells at rates 1..100 with quantities (1,1) trade 50
\* at rate 51, with (10,1) trade 90 at rate 92, with (1,10) trade 90 at rate 9.
C8_TestScenarios ==
    /\ Matched(S1, 51, 50)
    /\ Matched(S2, 92, 90)
    /\ Matched(S3, 9, 90)

\* C8 witness: the three scenarios have been matched; this is the second.
C8_Witness ==
    /\ pc = "matched"
    /\ test = S2
    /\ result.status = "ok"
    /\ Len(result.trades) = 100

\* C9, as stated: in S6 the first trade is a partial fill of a Buy order and
\* the bought and sold volumes are equal.
C9_PartialOnBuySide ==
    (pc = "matched" /\ test = S6) =>
        /\ result.status = "ok"
        /\ result.trades # <<>>
        /\ IsBuyTrade(result.trades[1])
        /\ result.trades[1].quantity < result.trades[1].order.quantity
        /\ SumQuantity(SelectSeq(result.trades, IsBuyTrade))
             = SumQuantity(SelectSeq(result.trades, IsSellTrade))

\* C9, amended: in S6 the first trade is a partial fill of a Sell order (5 of
\* the 7 of the sell at rate 6), and the bought and sold volumes are equal.
C9_PartialOnSellSide ==
    (pc = "matched" /\ test = S6) =>
        /\ result.status = "ok"
        /\ result.trades # <<>>
        /\ IsSellTrade(result.trades[1])
        /\ result.trades[1].quantity > 0
        /\ result.trades[1].quantity < result.trades[1].order.quantity
        /\ SumQuantity(SelectSeq(result.trades, IsBuyTrade))
             = SumQuantity(SelectSeq(result.trades, IsSellTrade))

\* C9 witness: S6 has been matched and trades 40 at rate 7.
C9_Witness ==
    /\ pc = "matched"
    /\ test = S6
    /\ result.status = "ok"
    /\ result.traded_volume = 40
    /\ result.traded_rate = Some(7)

\* C10: after every sequence of mutating operations a Buy book is weakly
\* descending and a Sell book weakly ascending by rate.
C10_BooksSorted ==
    /\ IsSorted("Buy", bids.orders)
    /\ IsSorted("Sell", asks.orders)

\* C10 witness: a book of at least three orders, not all of one rate, that
\* the operations have built.
C10_Witness ==
    /\ pc = "buy_book"
    /\ Len(bids.orders) >= 3
    /\ bids.orders[1].rate > bids.orders[Len(bids.orders)].rate

\* The number of places of os that hold the order o.
Count(os, o) == Cardinality({k \in 1..Len(os) : os[k] = o})

Range(os) == {os[k] : k \in 1..Len(os)}

\* C11: every call of add_remove_batch leaves in the book exactly the
\* orders of the previous book and of the newcomers whose id the registry
\* contains, each as often as it was there, and leaves the buffer empty.
C11_AddRemoveBatchExact ==
    [][AddRemoveSamples =>
        LET before == BookUnderTest.orders \o Samples
            after == IF pc = "buy_book" THEN bids'.orders ELSE asks'.orders
        IN
        /\ buy_batch' = <<>> /\ sell_batch' = <<>>
        /\ \A o \in Range(before) \cup Range(after) :
              Count(after, o) =
                 IF contains_key(registered, o.id) THEN Count(before, o) ELSE 0
      ]_vars

\* C11 witness: a call that took a newcomer, left two orders in the book and
\* dropped at least one order whose id had been removed from the registry.
C11_Witness ==
    /\ result.status = "ok" /\ result.call = "add_remove_batch"
    /\ result.taken > 0 /\ result.held > 0
    /\ Len(BookUnderTest.orders) = 2
    /\ result.held + result.taken > 2

\* C12: a handle whose order was removed stays dead, whatever is added or
\* removed afterwards: it is the key of no order the registry holds (so no
\* add_order has returned it again), get and remove_order return nothing
\* for it, and modify_order with it changes nothing.
C12_StaleHandlesNeverAlias ==
    \A id \in cancel_ids :
        /\ id \notin LiveIds(registered)
        /\ get(registered, id) = None
        /\ remove_order(registered, id) = [orders |-> registered, returned |-> None]
        /\ modify_order(registered, RegisteredOrder(id, 0, "Buy", 0, 2)) = registered

\* The mathematical value of (x + y) / 2, truncated toward zero, computed
\* without forming x + y when the two have the same sign.
TruncatedMean(x, y) ==
    IF (x >= 0) # (y >= 0) THEN I32Div2(x + y)
    ELSE LET lo == IF x <= y THEN x ELSE y
             hi == IF x <= y THEN y ELSE x
             d == hi - lo
         IN  IF d % 2 = 1 /\ x < 0 THEN lo + (d \div 2) + 1
                                    ELSE lo + (d \div 2)

\* C13: for every pair of last accepted rates the call computes the clearing
\* rate without 32-bit overflow: it does not panic in the addition, and the
\* rate it returns is the truncated mean of the two rates.
C13_ClearingRateExact ==
    pc = "matched" =>
        /\ result # Panic(95)
        /\ (result.status = "ok" /\ result.traded_rate # None) =>
              result.traded_rate[1] = TruncatedMean(WalkOfInput.bid, WalkOfInput.ask)

\* The first trade is a partial fill.
FirstIsPartial ==
    /\ result.trades # <<>>
    /\ result.trades[1].quantity < result.trades[1].order.quantity

\* C14: the trades of a result are the partial-fill trade, if there is one,
\* then full trades of a prefix of the buy book in book order, then full
\* trades of a prefix of the sell book in book order; the partially filled
\* order is the one next after the prefix of its book.
C14_TradesOrdered ==
    Returned =>
        \E nb \in 0..Len(bids.orders), na \in 0..Len(asks.orders) :
            LET p == IF FirstIsPartial THEN 1 ELSE 0
                ts == result.trades
            IN
            /\ Len(ts) = p + nb + na
            /\ \A k \in 1..nb :
                  /\ ts[p + k].order = bids.orders[k]
                  /\ ts[p + k].quantity = bids.orders[k].quantity
            /\ \A k \in 1..na :
                  /\ ts[p + nb + k].order = asks.orders[k]
                  /\ ts[p + nb + k].quantity = asks.orders[k].quantity
            /\ p = 1 =>
                  \/ nb < Len(bids.orders) /\ ts[1].order = bids.orders[nb + 1]
                  \/ na < Len(asks.orders) /\ ts[1].order = asks.orders[na + 1]

\* C14 witness: a partial fill followed by two drained buys and then a
\* drained sell.
C14_Witness ==
    /\ Returned
    /\ FirstIsPartial
    /\ Len(result.trades) >= 4
    /\ IsBuyTrade(result.trades[2])
    /\ IsBuyTrade(result.trades[3])
    /\ result.trades[2].order.id # result.trades[3].order.id
    /\ IsSellTrade(result.trades[4])

\* The walk over the matched books after n elements of the merged stream.
WalkAfter(n) == WalkSteps(bids.orders, asks.orders, WalkStart, n)

WalkLengths == 0..(Len(bids.orders) + Len(asks.orders))

\* The walk w goes on, both streams have a next element, and the two carry
\* equal cumulative quantities.
WalkTie(w) ==
    /\ ~w.flag
    /\ w.i < Len(bids.orders) /\ w.j < Len(asks.orders)
    /\ NextBidVolume(bids.orders, w) = NextAskVolume(asks.orders, w)

RECURSIVE TiesGoTo(_, _, _)
\* Over the next n elements of the walk from w: at every tie the merge takes
\* the buy element if buyFirst, the sell element if not.
TiesGoTo(w, n, buyFirst) ==
    /\ WalkTie(w) => (WalkTakesBuy(bids.orders, asks.orders, w) <=> buyFirst)
    /\ (n > 0 /\ ~w.flag) =>
          TiesGoTo(WalkStep(bids.orders, asks.orders, w), n - 1, buyFirst)

\* C16, as stated: at a tie of the cumulative quantities the walk examines
\* the buy element next.
C16_TiesAdvanceBuy ==
    pc = "matched" =>
        TiesGoTo(WalkStart, Len(bids.orders) + Len(asks.orders), TRUE)

\* C16, amended: at a tie of the cumulative quantities the walk examines the
\* sell element next.
C16_TiesAdvanceSell ==
    pc = "matched" =>
        TiesGoTo(WalkStart, Len(bids.orders) + Len(asks.orders), FALSE)

\* C16 witness: a matched walk that met a tie after its first elements, and
\* accepted the sell element there.
C16_Witness ==
    /\ Returned
    /\ \E n \in WalkLengths :
          /\ n > 0
          /\ WalkTie(WalkAfter(n))
          /\ WalkStep(bids.orders, asks.orders, WalkAfter(n)).j = WalkAfter(n).j + 1

\* C17: in every result bids_matched is the number of trades of Buy orders,
\* asks_matched the number of trades of Sell orders, and every trade is one
\* or the other.
C17_MatchedCounts ==
    Returned =>
        /\ result.bids_matched = Len(SelectSeq(result.trades, IsBuyTrade))
        /\ result.asks_matched = Len(SelectSeq(result.trades, IsSellTrade))
        /\ Len(result.trades) = result.bids_matched + result.asks_matched

\* C17 witness: a result whose partial fill is on the buy side, with a
\* drained buy and a drained sell besides.
C17_Witness ==
    /\ Returned
    /\ FirstIsPartial
    /\ IsBuyTrade(result.trades[1])
    /\ result.bids_matched >= 2
    /\ result.asks_matched >= 1

\* The full trades of one side, in the order of the trades sequence.
FullTradesOf(order_type) ==
    LET full(t) == t.order.order_type = order_type /\ t.quantity = t.order.quantity
    IN  SelectSeq(result.trades, full)

\* open is book without a prefix, and the orders of that prefix are the
\* ones traded in full.
OpenIsRest(open, book) ==
    LET n == Len(FullTradesOf(book.order_type)) IN
    /\ open.order_type = book.order_type
    /\ n <= Len(book.orders)
    /\ open.orders = SubSeq(book.orders, n + 1, Len(book.orders))
    /\ \A k \in 1..n : FullTradesOf(book.order_type)[k].order = book.orders[k]
    /\ IsSorted(book.order_type, open.orders)

\* C18: when a result has trades, open_bids is the buy book without its
\* drained prefix and open_asks the sell book without its drained prefix,
\* the rest unchanged, in order and sorted.
C18_OpenBooksAreRest ==
    (Returned /\ result.trades # <<>>) =>
        /\ OpenIsRest(result.open_bids, bids)
        /\ OpenIsRest(result.open_asks, asks)

\* C18 witness: a result with trades that leaves orders open on both sides.
C18_Witness ==
    /\ Returned
    /\ result.trades # <<>>
    /\ result.open_bids.orders # <<>>
    /\ result.open_asks.orders # <<>>
    /\ Len(result.open_bids.orders) < Len(bids.orders)
    /\ Len(result.open_asks.orders) < Len(asks.orders)

\* The ids of the orders of a book.
BookIdsOf(book) == {book.orders[k].id : k \in 1..Len(book.orders)}

\* C15: between requests every id in the buy book or the sell book is
\* contained in the registry or in the pending cancel set.
C15_BookIdsLiveOrPending ==
    pc = "request" =>
        \A id \in BookIdsOf(bids) \cup BookIdsOf(asks) :
            contains_key(registered, id) \/ id \in cancel_ids

\* C15 witness: after an auction, before the next request, with an order
\* open in a book and a cancel pending.
C15_Witness ==
    /\ pc = "request"
    /\ driver_epoch >= 1
    /\ cancel_ids # {}
    /\ BookIdsOf(bids) \cup BookIdsOf(asks) # {}

\* The order the registry holds under a live id.
RegisteredAt(id) == registered[id.idx].value[1]

\* C19: whenever market_match is about to be called both add buffers are
\* empty, the cancel set is cleared, and every order the registry contains
\* is in the book of its own side.
C19_FlushedBeforeMatch ==
    pc = "market_match" =>
        /\ buy_batch = <<>>
        /\ sell_batch = <<>>
        /\ cancel_ids = {}
        /\ \A id \in LiveIds(registered) :
              id \in BookIdsOf(IF RegisteredAt(id).order_type = "Buy" THEN bids ELSE asks)

\* C19 witness: a second auction is about to run on two non-empty books.
C19_Witness ==
    /\ pc = "market_match"
    /\ driver_epoch >= 1
    /\ bids.orders # <<>>
    /\ asks.orders # <<>>

\* C20: when both closures of a join have finished, the books and buffers
\* are those of the buy-side task followed by the sell-side task run on the
\* state the join was entered with, whatever the interleaving was.
C20_JoinIsSerial ==
    (pc \in {"flush", "epoch"} /\ tasks = [buy |-> "done", sell |-> "done"]) =>
        /\ bids = remove_batch(add_batch(fork.bids, fork.buy_batch), fork.cancel_ids)
        /\ asks = remove_batch(add_batch(fork.asks, fork.sell_batch), fork.cancel_ids)
        /\ buy_batch = <<>>
        /\ sell_batch = <<>>
        /\ cancel_ids = fork.cancel_ids

\* C20 witness: a finished join that had new orders to add on both sides.
C20_Witness ==
    /\ pc \in {"flush", "epoch"}
    /\ tasks = [buy |-> "done", sell |-> "done"]
    /\ fork.buy_batch # <<>>
    /\ fork.sell_batch # <<>>

\* C21: market_match is index safe on every pair of sorted books: the
\* decrements of lines 74 and 75 start from an index of at least 1, so that
\* neither goes below zero, and no later decrement, index or drain range
\* fails, so that the call returns a result.
C21_IndexSafety ==
    pc = "matched" =>
        /\ WalkOfInput.bid_idx >= 1
        /\ WalkOfInput.ask_idx >= 1
        /\ result.status = "ok"

\* C23: in every returned result with trades the clearing rate lies between
\* the last accepted sell rate and the last accepted buy rate, every traded
\* buy order has order.rate >= the clearing rate and every traded sell order
\* has order.rate <= the clearing rate.
C23_LimitPricesRespected ==
    (Returned /\ result.trades # <<>>) =>
        /\ WalkOfInput.ask <= result.traded_rate[1]
        /\ result.traded_rate[1] <= WalkOfInput.bid
        /\ \A k \in TradeIndexes :
              IF IsBuyTrade(result.trades[k])
              THEN result.trades[k].order.rate >= result.traded_rate[1]
              ELSE result.trades[k].order.rate <= result.traded_rate[1]

\* C22: over the epochs of the driver, the quantities of all trades emitted
\* for one order id sum to at most the quantity the order was registered
\* with.
C22_NoOverfill ==
    \A id \in DOMAIN filled : filled[id].traded <= filled[id].quantity

\* C24: when the driver reintegrates the trades of an auction, every order
\* traded in full is absent from the registry afterwards, and every order
\* traded in part is still registered, with the quantity it had before the
\* auction less the trade's quantity, which is greater than 0.
C24_RemainderRegistered ==
    [][Reintegrate =>
        \A k \in 1..Len(result.trades) :
            LET deal == result.trades[k]
                before == get(registered, deal.order.id)
                after == get(registered', deal.order.id)
            IN  IF deal.quantity = deal.order.quantity
                THEN after = None
                ELSE /\ after # None
                     /\ after[1].quantity = before[1].quantity - deal.quantity
                     /\ after[1].quantity > 0]_vars

============================================================================
